---- MODULE Spec2Model ----
(***************************************************************************)
(* Price-time-priority matching engine core: Order, Limit (price level),   *)
(* OrderBook and the Open / Match / Done log records they emit.            *)
(*                                                                         *)
(* Four harnesses drive the code.  Spec drives one OrderBook the way       *)
(* core/tests/order_book_tests.rs does (add_limit_order, fill_market_order)*)
(* and cancels resting orders through Limit::delete_order on the Limit     *)
(* stored in the book, the only cancel path the crate has.  SpecLimit      *)
(* drives one stand-alone Limit the way core/tests/limit_tests.rs does     *)
(* (add_order, delete_order, fill_order).  SpecSnapshot adds snapshot and  *)
(* restore to the book harness, with a SnapshotData whose public order     *)
(* list the caller may extend.  SpecRaw drives the book with arguments     *)
(* the code never checks: sizes and order prices that are not positive,    *)
(* and a level price that differs from the order's own price.              *)
(*                                                                         *)
(* Decimal prices and sizes are modelled by small integers; every          *)
(* operation on them in the code (compare, subtract) is exact.             *)
(***************************************************************************)
EXTENDS Integers, Sequences, FiniteSets, TLC

\* ---------------------------------------------------------------- bounds
MaxSize == 2
MaxClock == 3

Prices == {1, 2}
Sizes == 1..MaxSize
Ids == {"o1", "o2"}
MaxSnapshot == 2
\* what a caller can pass where the code checks nothing
RawSizes == (0 - 1)..MaxSize
RawPrices == {0} \cup Prices
BidOrAsk == {"Bid", "Ask"}

VARIABLES
    asks,       \* OrderBook.asks : price -> Limit
    bids,       \* OrderBook.bids : price -> Limit
    sequence,   \* OrderBook.sequence
    limit,      \* the stand-alone Limit of limit_tests.rs
    clock,      \* logical time: the number of calls made so far
    snapshot_data, \* the SnapshotData the caller holds, if any
    panicked,   \* the process was aborted by a failed unwrap()
    emitted,    \* highest sequence number on any log returned so far
    last        \* what the most recent call received and returned

vars == <<asks, bids, sequence, limit, clock, snapshot_data, panicked, emitted,
          last>>

\* ---------------------------------------------------------------- Order
Order_new(id, bid_or_ask, price, size, now) ==
    [id |-> id, bid_or_ask |-> bid_or_ask, price |-> price, size |-> size,
     created_at |-> now, sequence |-> 0]

is_filled(order) == order.size = 0

Order_next_log_seq(order) == [order EXCEPT !.sequence = order.sequence + 1]

NoOrder == Order_new("", "Bid", 0, 0, 0)

\* ---------------------------------------------------------------- Log
OpenLog(seq, order_id, size, price, bid_or_ask) ==
    [kind |-> "Open", sequence |-> seq, order_id |-> order_id,
     taker_order_id |-> "", maker_order_id |-> "", price |-> price,
     size |-> size, remaining_size |-> 0, reason |-> "",
     bid_or_ask |-> bid_or_ask]

DoneLog(seq, order_id, price, remaining_size, reason, bid_or_ask) ==
    [kind |-> "Done", sequence |-> seq, order_id |-> order_id,
     taker_order_id |-> "", maker_order_id |-> "", price |-> price,
     size |-> 0, remaining_size |-> remaining_size, reason |-> reason,
     bid_or_ask |-> bid_or_ask]

MatchLog(seq, taker_order_id, maker_order_id, price, size) ==
    [kind |-> "Match", sequence |-> seq, order_id |-> "",
     taker_order_id |-> taker_order_id, maker_order_id |-> maker_order_id,
     price |-> price, size |-> size, remaining_size |-> 0, reason |-> "",
     bid_or_ask |-> ""]

\* ---------------------------------------------------------------- Limit
Limit_new(price) == [price |-> price, orders |-> <<>>]

\* an add that puts the order in front of the orders already held
add_order_front(lim, order) ==
    LET stamped == Order_next_log_seq(order)
    IN  [limit |-> [lim EXCEPT !.orders = <<order>> \o lim.orders],
         log   |-> OpenLog(stamped.sequence, order.id, order.size,
                           order.price, order.bid_or_ask)]

\* Limit::add_order: push a clone, stamp the Open log from the order's own
\* counter (the pushed clone keeps the counter it arrived with).  The
\* number OrderBook draws from its own counter and passes along is not a
\* parameter of add_order or fill_order and reaches no log.
add_order(lim, order) ==
    LET stamped == Order_next_log_seq(order)
    IN  [limit |-> [lim EXCEPT !.orders = Append(lim.orders, order)],
         log   |-> OpenLog(stamped.sequence, order.id, order.size,
                           order.price, order.bid_or_ask)]

\* positions of the orders of a Limit that carry the id
Positions(orders, id) == {i \in 1..Len(orders) : orders[i].id = id}

\* Limit::delete_order: find(..).unwrap() panics when no order has the id;
\* otherwise retain() drops every order with the id and the Done log is
\* built from the first one found.
delete_order(lim, id) ==
    LET pos == Positions(lim.orders, id)
    IN  IF pos = {}
        THEN [panic |-> TRUE, limit |-> lim, logs |-> <<>>]
        ELSE LET first == CHOOSE i \in pos : \A j \in pos : i <= j
                 order == Order_next_log_seq(lim.orders[first])
             IN  [panic |-> FALSE,
                  limit |-> [lim EXCEPT !.orders =
                                SelectSeq(lim.orders, LAMBDA o : o.id # id)],
                  logs  |-> <<DoneLog(order.sequence, id, order.price,
                                      order.size, "DELETED",
                                      order.bid_or_ask)>>]

\* One record per resting order visited by the first loop of fill_order:
\* which order, at which level, and the sizes right before and after.
Step(lim, lo, market, lo2, market2) ==
    [level |-> lim.price, maker |-> lo.id, maker_at |-> lo.created_at,
     incoming_before |-> market.size, resting_before |-> lo.size,
     incoming_after |-> market2.size, resting_after |-> lo2.size]

\* Limit::fill_order, first loop (for limit_order in self.orders.iter_mut())
RECURSIVE fill_walk(_, _, _, _, _)
fill_walk(lim, i, market, logs, steps) ==
    IF i > Len(lim.orders)
    THEN [limit |-> lim, market |-> market, logs |-> logs, steps |-> steps]
    ELSE LET lo == Order_next_log_seq(lim.orders[i])
         IN  IF market.size >= lo.size
             THEN LET market2 == [market EXCEPT !.size = market.size - lo.size]
                      lo2 == [lo EXCEPT !.size = 0]
                  IN  fill_walk([lim EXCEPT !.orders[i] = lo2], i + 1, market2,
                          Append(logs, MatchLog(lo.sequence, market2.id, lo.id,
                                                lo.price, market2.size)),
                          Append(steps, Step(lim, lim.orders[i], market,
                                             lo2, market2)))
             ELSE LET lo2 == [lo EXCEPT !.size = lo.size - market.size]
                      market2 == [market EXCEPT !.size = 0]
                  IN  fill_walk([lim EXCEPT !.orders[i] = lo2], i + 1, market2,
                          Append(logs, MatchLog(lo.sequence, market.id, lo.id,
                                                lo.price, market.size)),
                          Append(steps, Step(lim, lim.orders[i], market,
                                             lo2, market2)))

\* Limit::fill_order, second loop (self.orders.retain(..)): a Done log is
\* pushed for every order the closure sees, the order is kept iff size > 0.
RECURSIVE fill_retain(_, _, _, _)
fill_retain(orders, i, kept, logs) ==
    IF i > Len(orders)
    THEN [orders |-> kept, logs |-> logs]
    ELSE LET order == Order_next_log_seq(orders[i])
             log == DoneLog(order.sequence, order.id, order.price, 0,
                            "FILLED", order.bid_or_ask)
         IN  fill_retain(orders, i + 1,
                         IF order.size > 0 THEN Append(kept, order) ELSE kept,
                         Append(logs, log))

\* what fill_order leaves and returns after both loops
fill_result(w, r) ==
    [limit |-> [w.limit EXCEPT !.orders = r.orders],
     market |-> w.market, logs |-> r.logs, steps |-> w.steps]

\* the second loop applied to what the first loop left
fill_after_walk(w) ==
    fill_result(w, fill_retain(w.limit.orders, 1, <<>>, w.logs))

\* the queue with its partially filled orders sent to the back
requeue(before, orders) ==
    LET partial(o) == \E i \in 1..Len(before) :
                          /\ before[i].created_at = o.created_at
                          /\ o.size < before[i].size
    IN  SelectSeq(orders, LAMBDA o : ~partial(o)) \o SelectSeq(orders, partial)

\* a result of fill_order with the queue requeued
requeue_result(before, r) ==
    [r EXCEPT !.limit.orders = requeue(before, @)]

\* fill_order that sends a partially filled order to the back of the queue
fill_order_requeue(lim, market_order) ==
    requeue_result(lim.orders,
        fill_after_walk(fill_walk(lim, 1, market_order, <<>>, <<>>)))

\* Limit::fill_order
fill_order(lim, market_order) ==
    fill_after_walk(fill_walk(lim, 1, market_order, <<>>, <<>>))

\* ---------------------------------------------------------------- OrderBook
\* OrderBook::next_log_seq
next_log_seq(seq) == seq + 1

Values(map) == {map[p] : p \in DOMAIN map}

\* limits.sort_by(|a, b| a.price.cmp(&b.price)) over a set of Limits
RECURSIVE sort_ascending(_)
sort_ascending(lims) ==
    IF lims = {}
    THEN <<>>
    ELSE LET l == CHOOSE x \in lims : \A y \in lims : x.price <= y.price
         IN  <<l>> \o sort_ascending(lims \ {l})

\* limits.sort_by(|a, b| b.price.cmp(&a.price)) over a set of Limits
RECURSIVE sort_descending(_)
sort_descending(lims) ==
    IF lims = {}
    THEN <<>>
    ELSE LET l == CHOOSE x \in lims : \A y \in lims : x.price >= y.price
         IN  <<l>> \o sort_descending(lims \ {l})

\* ask_limits with the comparison of bid_limits (b.price.cmp(&a.price))
ask_limits_descending(map) == sort_descending(Values(map))

\* OrderBook::ask_limits: clones of the ask Limits, cheapest first
ask_limits(map) == sort_ascending(Values(map))

\* OrderBook::bid_limits: clones of the bid Limits, highest first
bid_limits(map) == sort_descending(Values(map))

\* limits.remove(index) for every collected index, from the last to the
\* first (remove_indices.iter().rev())
RECURSIVE remove_at(_, _)
remove_at(limits, remove_indices) ==
    IF remove_indices = <<>>
    THEN limits
    ELSE LET index == remove_indices[Len(remove_indices)]
         IN  remove_at(SubSeq(limits, 1, index - 1)
                           \o SubSeq(limits, index + 1, Len(limits)),
                       SubSeq(remove_indices, 1, Len(remove_indices) - 1))

\* OrderBook::fill_market_order, the loop over limits.iter_mut().enumerate():
\* walk_limits takes the next number and fills against the Limit at `index`,
\* walk_next is the rest of the loop body, given what fill_order returned.
RECURSIVE walk_limits(_, _, _, _, _, _, _)
RECURSIVE walk_next(_, _, _, _, _, _, _)
walk_limits(limits, index, market_order, seq, logs, steps, remove_indices) ==
    IF index > Len(limits)
    THEN [limits |-> limits, market |-> market_order, sequence |-> seq,
          logs |-> logs, steps |-> steps, remove_indices |-> remove_indices]
    ELSE walk_next(limits, index, next_log_seq(seq), logs, steps,
                   remove_indices, fill_order(limits[index], market_order))

walk_next(limits, index, seq, logs, steps, remove_indices, result) ==
    LET limits2 == [limits EXCEPT ![index] = result.limit]
        remove2 == IF result.limit.orders = <<>>
                   THEN Append(remove_indices, index)
                   ELSE remove_indices
        logs2 == logs \o result.logs
        steps2 == steps \o result.steps
    IN  IF is_filled(result.market)
        THEN [limits |-> limits2, market |-> result.market, sequence |-> seq,
              logs |-> logs2, steps |-> steps2, remove_indices |-> remove2]
        ELSE walk_limits(limits2, index + 1, result.market, seq, logs2,
                         steps2, remove2)

\* a fill that rests what it could not match: the remainder of the market
\* order is appended to its own side at the order's price
fill_returns_resting(a, b, w) ==
    LET own == IF w.market.bid_or_ask = "Bid" THEN b ELSE a
        p == w.market.price
        lim == IF p \in DOMAIN own THEN own[p]
               ELSE [price |-> p, orders |-> <<>>]
        own2 == IF w.market.size > 0
                THEN [q \in DOMAIN own \cup {p} |->
                        IF q = p
                        THEN [lim EXCEPT !.orders = Append(@, w.market)]
                        ELSE own[q]]
                ELSE own
    IN  [asks |-> IF w.market.bid_or_ask = "Bid" THEN a ELSE own2,
         bids |-> IF w.market.bid_or_ask = "Bid" THEN own2 ELSE b,
         sequence |-> w.sequence, market |-> w.market,
         logs |-> w.logs, steps |-> w.steps,
         limits |-> remove_at(w.limits, w.remove_indices)]

\* what fill_market_order leaves and returns once the loop has ended: the
\* emptied clones are removed from the local vector; self.asks and
\* self.bids have been read, never written.
fill_returns(a, b, w) ==
    [asks |-> a, bids |-> b, sequence |-> w.sequence, market |-> w.market,
     logs |-> w.logs, steps |-> w.steps,
     limits |-> remove_at(w.limits, w.remove_indices)]

\* a fill that walks the incoming order's own side and stores what the
\* walk left of it back into the book
same_side_returns(a, b, w) ==
    LET left == remove_at(w.limits, w.remove_indices)
        map == [p \in {left[i].price : i \in 1..Len(left)} |->
                   left[CHOOSE i \in 1..Len(left) : left[i].price = p]]
    IN  [asks |-> IF w.market.bid_or_ask = "Ask" THEN map ELSE a,
         bids |-> IF w.market.bid_or_ask = "Bid" THEN map ELSE b,
         sequence |-> w.sequence, market |-> w.market,
         logs |-> w.logs, steps |-> w.steps, limits |-> left]

fill_market_order_same_side(a, b, seq, market_order) ==
    same_side_returns(a, b,
        walk_limits(IF market_order.bid_or_ask = "Bid"
                    THEN bid_limits(b) ELSE ask_limits(a),
                    1, market_order, seq, <<>>, <<>>, <<>>))

\* OrderBook::fill_market_order: the walk runs over the sorted vector of
\* clones of the opposing side.
fill_market_order(a, b, seq, market_order) ==
    fill_returns(a, b,
        walk_limits(IF market_order.bid_or_ask = "Bid"
                    THEN ask_limits(a) ELSE bid_limits(b),
                    1, market_order, seq, <<>>, <<>>, <<>>))

\* map.insert(price, limit) / *map.get_mut(&price) = limit
Insert(map, price, lim) ==
    [p \in DOMAIN map \cup {price} |-> IF p = price THEN lim ELSE map[p]]

\* one arm of the match in add_limit_order: existing Limit or a new one
add_to_side(map, price, order) ==
    LET lim == IF price \in DOMAIN map THEN map[price] ELSE Limit_new(price)
        r == add_order(lim, order)
    IN  [map |-> Insert(map, price, r.limit), log |-> r.log]

\* a submission that uncrosses the book: the levels of the opposite side
\* the order is marketable against are taken out before the order rests
add_limit_order_uncrossing(a, b, seq, price, order) ==
    LET seq2 == next_log_seq(seq)
    IN  IF order.bid_or_ask = "Bid"
        THEN LET r == add_to_side(b, price, order)
             IN  [asks |-> [p \in {q \in DOMAIN a : q > price} |-> a[p]],
                  bids |-> r.map, sequence |-> seq2, log |-> r.log]
        ELSE LET r == add_to_side(a, price, order)
             IN  [asks |-> r.map,
                  bids |-> [p \in {q \in DOMAIN b : q < price} |-> b[p]],
                  sequence |-> seq2, log |-> r.log]

\* OrderBook::add_limit_order
add_limit_order(a, b, seq, price, order) ==
    LET seq2 == next_log_seq(seq)
    IN  IF order.bid_or_ask = "Bid"
        THEN LET r == add_to_side(b, price, order)
             IN  [asks |-> a, bids |-> r.map, sequence |-> seq2, log |-> r.log]
        ELSE LET r == add_to_side(a, price, order)
             IN  [asks |-> r.map, bids |-> b, sequence |-> seq2, log |-> r.log]

\* ---------------------------------------------------------------- Snapshot
\* the orders of a vector of Limits, level after level
RECURSIVE limit_orders(_)
limit_orders(limits) ==
    IF limits = <<>> THEN <<>>
    ELSE Head(limits).orders \o limit_orders(Tail(limits))

\* the two loops of construct_snapshot over the orders still to visit:
\* i += 1; snapshot_data.orders[i] = order.  Indexing a Vec at or past its
\* length panics; the Vec is created empty and nothing ever extends it.
RECURSIVE store_orders(_, _, _)
store_orders(pending, i, orders) ==
    IF pending = <<>> THEN [panic |-> FALSE, orders |-> orders]
    ELSE IF i + 1 >= Len(orders)
         THEN [panic |-> TRUE, orders |-> orders]
         ELSE store_orders(Tail(pending), i + 1,
                           [orders EXCEPT ![i + 2] = Head(pending)])

\* Snapshot::construct_snapshot
construct_snapshot(ask, bid, trade_seq, log_seq) ==
    [stored |-> store_orders(limit_orders(ask) \o limit_orders(bid), 0, <<>>),
     trade_seq |-> trade_seq, log_seq |-> log_seq]

\* OrderBook::snapshot
snapshot(a, b) == construct_snapshot(ask_limits(a), bid_limits(b), 0, 0)

\* OrderBook::restore: every order of the list goes through
\* add_limit_order at its own price; the OpenLog it returns is dropped
RECURSIVE restore(_, _, _, _)
restore_next(r, orders) == restore(r.asks, r.bids, r.sequence, orders)
restore(a, b, seq, orders) ==
    IF orders = <<>> THEN [asks |-> a, bids |-> b, sequence |-> seq]
    ELSE restore_next(
             add_limit_order(a, b, seq, Head(orders).price, Head(orders)),
             Tail(orders))

\* no SnapshotData in the caller's hands
NoSnapshot ==
    [held |-> FALSE, edited |-> FALSE, restored |-> FALSE, orders |-> <<>>,
     log_seq |-> 0,
     trade_seq |-> 0,
     book |-> [asks |-> <<>>, bids |-> <<>>, sequence |-> 0, emitted |-> 0]]

\* ---------------------------------------------------------------- calls
\* The record kept of the most recent call: its name, the state it found,
\* its arguments, the logs it returned, and for a fill the caller's market
\* order after the call, the visited orders and the vector `limits` as the
\* call left it.
Call(op, order, price, id, logs, market, steps, limits) ==
    [op |-> op, asks0 |-> asks, bids0 |-> bids, sequence0 |-> sequence,
     limit0 |-> limit, emitted0 |-> emitted, order |-> order,
     price |-> price, id |-> id,
     logs |-> logs, market |-> market, steps |-> steps, limits |-> limits]

\* the highest sequence number seen once `logs` have been returned
RECURSIVE highest(_, _)
highest(logs, sofar) ==
    IF logs = <<>> THEN sofar
    ELSE highest(Tail(logs),
                 IF Head(logs).sequence > sofar THEN Head(logs).sequence
                 ELSE sofar)

\* OrderBook::new, Limit::new
Init ==
    /\ asks = <<>>
    /\ bids = <<>>
    /\ sequence = 0
    /\ limit = Limit_new(1)
    /\ clock = 0
    /\ snapshot_data = NoSnapshot
    /\ panicked = FALSE
    /\ emitted = 0
    /\ last = [op |-> "new", asks0 |-> <<>>, bids0 |-> <<>>, sequence0 |-> 0,
               limit0 |-> Limit_new(1), emitted0 |-> 0, order |-> NoOrder,
               price |-> 0,
               id |-> "", logs |-> <<>>, market |-> NoOrder, steps |-> <<>>,
               limits |-> <<>>]

\* order_book.add_limit_order(price, Order::new(id, side, price, size))
AddLimitOrder ==
    /\ ~panicked
    /\ clock < MaxClock
    /\ \E id \in Ids, side \in BidOrAsk, price \in Prices, size \in Sizes :
         LET order == Order_new(id, side, price, size, clock + 1)
             r == add_limit_order(asks, bids, sequence, price, order)
         IN  /\ asks' = r.asks
             /\ bids' = r.bids
             /\ sequence' = r.sequence
             /\ emitted' = highest(<<r.log>>, emitted)
             /\ last' = Call("add_limit_order", order, price, id, <<r.log>>,
                             NoOrder, <<>>, <<>>)
    /\ clock' = clock + 1
    /\ UNCHANGED <<limit, panicked, snapshot_data>>

\* the state and the record of the call after fill_market_order returned r
FillMarketOrderReturns(market_order, r) ==
    /\ asks' = r.asks
    /\ bids' = r.bids
    /\ sequence' = r.sequence
    /\ emitted' = highest(r.logs, emitted)
    /\ last' = Call("fill_market_order", market_order, 0, market_order.id,
                    r.logs, r.market, r.steps, r.limits)

\* order_book.fill_market_order(&mut Order::new(id, side, _, size)); the
\* price of a market order is never read.
FillMarketOrder ==
    /\ ~panicked
    /\ clock < MaxClock
    /\ \E id \in Ids, side \in BidOrAsk, size \in Sizes :
         FillMarketOrderReturns(
             Order_new(id, side, 1, size, clock + 1),
             fill_market_order(asks, bids, sequence,
                               Order_new(id, side, 1, size, clock + 1)))
    /\ clock' = clock + 1
    /\ UNCHANGED <<limit, panicked, snapshot_data>>

\* cancel of a resting order: delete_order(id) on the Limit the book stores
\* at a price of one side
CancelOrder ==
    /\ ~panicked
    /\ clock < MaxClock
    /\ \E id \in Ids, side \in BidOrAsk :
         LET map == IF side = "Bid" THEN bids ELSE asks
         IN  \E price \in DOMAIN map :
               LET r == delete_order(map[price], id)
                   map2 == IF r.panic THEN map ELSE Insert(map, price, r.limit)
               IN  /\ asks' = IF side = "Ask" THEN map2 ELSE asks
                   /\ bids' = IF side = "Bid" THEN map2 ELSE bids
                   /\ panicked' = r.panic
                   /\ emitted' = highest(r.logs, emitted)
                   /\ last' = Call("delete_order",
                                   [NoOrder EXCEPT !.bid_or_ask = side], price,
                                   id, r.logs, NoOrder, <<>>, <<>>)
    /\ clock' = clock + 1
    /\ UNCHANGED <<sequence, limit, snapshot_data>>

Next == AddLimitOrder \/ FillMarketOrder \/ CancelOrder

Spec == Init /\ [][Next]_vars

\* limit.add_order(Order::new(id, side, price, size))
LimitAddOrder ==
    /\ ~panicked
    /\ clock < MaxClock
    /\ \E id \in Ids, side \in BidOrAsk, price \in Prices, size \in Sizes :
         LET order == Order_new(id, side, price, size, clock + 1)
             r == add_order(limit, order)
         IN  /\ limit' = r.limit
             /\ emitted' = highest(<<r.log>>, emitted)
             /\ last' = Call("add_order", order, price, id, <<r.log>>,
                             NoOrder, <<>>, <<>>)
    /\ clock' = clock + 1
    /\ UNCHANGED <<asks, bids, sequence, panicked, snapshot_data>>

\* limit.delete_order(id)
LimitDeleteOrder ==
    /\ ~panicked
    /\ clock < MaxClock
    /\ \E id \in Ids :
         LET r == delete_order(limit, id)
         IN  /\ limit' = r.limit
             /\ panicked' = r.panic
             /\ emitted' = highest(r.logs, emitted)
             /\ last' = Call("delete_order", NoOrder, limit.price, id, r.logs,
                             NoOrder, <<>>, <<>>)
    /\ clock' = clock + 1
    /\ UNCHANGED <<asks, bids, sequence, snapshot_data>>

\* the state and the record of the call after fill_order returned r
LimitFillOrderReturns(market_order, r) ==
    /\ limit' = r.limit
    /\ emitted' = highest(r.logs, emitted)
    /\ last' = Call("fill_order", market_order, 0, market_order.id, r.logs,
                    r.market, r.steps, <<r.limit>>)

\* limit.fill_order(&mut Order::new(id, side, _, size))
LimitFillOrder ==
    /\ ~panicked
    /\ clock < MaxClock
    /\ \E id \in Ids, side \in BidOrAsk, size \in Sizes :
         LimitFillOrderReturns(
             Order_new(id, side, 1, size, clock + 1),
             fill_order(limit, Order_new(id, side, 1, size, clock + 1)))
    /\ clock' = clock + 1
    /\ UNCHANGED <<asks, bids, sequence, panicked, snapshot_data>>

NextLimit == LimitAddOrder \/ LimitDeleteOrder \/ LimitFillOrder

SpecLimit == Init /\ [][NextLimit]_vars

\* let data = order_book.snapshot(pair): the book is moved into the call,
\* so the caller goes on with OrderBook::new()
Snapshot ==
    /\ ~panicked
    /\ LET r == snapshot(asks, bids)
       IN  /\ panicked' = r.stored.panic
           /\ snapshot_data' =
                IF r.stored.panic THEN snapshot_data
                ELSE [held |-> TRUE, edited |-> FALSE, restored |-> FALSE,
                      orders |-> r.stored.orders, log_seq |-> r.log_seq,
                      trade_seq |-> r.trade_seq,
                      book |-> [asks |-> asks, bids |-> bids,
                                sequence |-> sequence, emitted |-> emitted]]
           /\ asks' = IF r.stored.panic THEN asks ELSE <<>>
           /\ bids' = IF r.stored.panic THEN bids ELSE <<>>
           /\ sequence' = IF r.stored.panic THEN sequence ELSE 0
    /\ last' = Call("snapshot", NoOrder, 0, "", <<>>, NoOrder, <<>>, <<>>)
    /\ UNCHANGED <<limit, clock, emitted>>

\* data.orders.push(Order::new(id, side, price, size)): the order list of
\* a SnapshotData is a public field
PushSnapshotOrder ==
    /\ ~panicked
    /\ clock < MaxClock
    /\ snapshot_data.held
    /\ Len(snapshot_data.orders) < MaxSnapshot
    /\ \E id \in Ids, side \in BidOrAsk, price \in Prices, size \in RawSizes :
         LET order == Order_new(id, side, price, size, clock + 1)
         IN  /\ snapshot_data' =
                  [snapshot_data EXCEPT !.orders = Append(@, order),
                                        !.edited = TRUE]
             /\ last' = Call("push", order, price, id, <<>>, NoOrder, <<>>,
                             <<>>)
    /\ clock' = clock + 1
    /\ UNCHANGED <<asks, bids, sequence, limit, panicked, emitted>>

\* the book after order_book.restore(data) returned r; data is moved into
\* the call, its content stays on record
RestoreReturns(r) ==
    /\ asks' = r.asks
    /\ bids' = r.bids
    /\ sequence' = r.sequence
    /\ snapshot_data' = [snapshot_data EXCEPT !.held = FALSE,
                                              !.restored = TRUE]
    /\ last' = Call("restore", NoOrder, 0, "", <<>>, NoOrder, <<>>, <<>>)

\* order_book.restore(data)
Restore ==
    /\ ~panicked
    /\ snapshot_data.held
    /\ RestoreReturns(restore(asks, bids, sequence, snapshot_data.orders))
    /\ UNCHANGED <<limit, clock, panicked, emitted>>

NextSnapshot ==
    AddLimitOrder \/ CancelOrder \/ Snapshot \/ PushSnapshotOrder \/ Restore

SpecSnapshot == Init /\ [][NextSnapshot]_vars

\* order_book.add_limit_order(price, Order::new(id, side, order_price,
\* size)) with whatever the caller passes: neither Order::new nor
\* add_limit_order checks a size or a price, and the level price is an
\* argument of its own (order_book_tests.rs adds at 120 an order whose
\* price field is 10)
AddRawLimitOrder ==
    /\ ~panicked
    /\ clock < MaxClock
    /\ \E id \in Ids, side \in BidOrAsk, price \in Prices,
          order_price \in RawPrices, size \in RawSizes :
         LET order == Order_new(id, side, order_price, size, clock + 1)
             r == add_limit_order(asks, bids, sequence, price, order)
         IN  /\ asks' = r.asks
             /\ bids' = r.bids
             /\ sequence' = r.sequence
             /\ emitted' = highest(<<r.log>>, emitted)
             /\ last' = Call("add_limit_order", order, price, id, <<r.log>>,
                             NoOrder, <<>>, <<>>)
    /\ clock' = clock + 1
    /\ UNCHANGED <<limit, panicked, snapshot_data>>

\* order_book.fill_market_order(&mut Order::new(id, side, _, size)) with
\* any size
FillRawMarketOrder ==
    /\ ~panicked
    /\ clock < MaxClock
    /\ \E id \in Ids, side \in BidOrAsk, size \in RawSizes :
         FillMarketOrderReturns(
             Order_new(id, side, 1, size, clock + 1),
             fill_market_order(asks, bids, sequence,
                               Order_new(id, side, 1, size, clock + 1)))
    /\ clock' = clock + 1
    /\ UNCHANGED <<limit, panicked, snapshot_data>>

NextRaw == AddRawLimitOrder \/ FillRawMarketOrder \/ CancelOrder

SpecRaw == Init /\ [][NextRaw]_vars

\* ================================================================ properties
Min(x, y) == IF x <= y THEN x ELSE y

RECURSIVE SumSeq(_)
SumSeq(nums) == IF nums = <<>> THEN 0 ELSE Head(nums) + SumSeq(Tail(nums))

SizesOf(recs) == [i \in 1..Len(recs) |-> recs[i].size]

RECURSIVE TotalResting(_)
TotalResting(map) ==
    IF DOMAIN map = {} THEN 0
    ELSE LET p == CHOOSE x \in DOMAIN map : TRUE
         IN  SumSeq(SizesOf(map[p].orders))
             + TotalResting([q \in DOMAIN map \ {p} |-> map[q]])

MatchLogs(logs) == SelectSeq(logs, LAMBDA e : e.kind = "Match")
DoneLogs(logs) == SelectSeq(logs, LAMBDA e : e.kind = "Done")

IsFill == last.op = "fill_market_order"
IsBuy == last.order.bid_or_ask = "Bid"

\* the side a fill walks, as the call found it and as the book has it now
Opposing0 == IF IsBuy THEN last.asks0 ELSE last.bids0
OpposingNow == IF IsBuy THEN asks ELSE bids

\* size matched against the maker of a step of the walk
Taken(step) == step.resting_before - step.resting_after

\* the resting orders of a side of the book, as a set of (level, order)
RestingOrders(map) ==
    UNION {{<<p, map[p].orders[i]>> : i \in 1..Len(map[p].orders)} :
             p \in DOMAIN map}

\* C1 Conservation: for one fill_market_order call the sizes carried by the
\* Match logs it returns add up to min(incoming size at entry, total size
\* resting on the opposing side at entry), and the incoming order ends with
\* its size at entry minus that sum.
Conservation ==
    IsFill =>
        LET matched == SumSeq(SizesOf(MatchLogs(last.logs)))
        IN  /\ matched = Min(last.order.size, TotalResting(Opposing0))
            /\ last.market.size = last.order.size - matched

\* C2 After fill_market_order the book's own maps reflect the fills: a maker
\* that was matched but not drained rests in its Limit with its size at
\* entry minus the size matched against it, and a maker drained to zero
\* rests in no Limit of the book.
BookReflectsFills ==
    IsFill =>
        \A k \in 1..Len(last.steps) :
            LET step == last.steps[k]
                now == {po \in RestingOrders(asks) \cup RestingOrders(bids) :
                           po[2].created_at = step.maker_at}
            IN  Taken(step) > 0 =>
                    IF step.resting_after = 0
                    THEN now = {}
                    ELSE /\ now # {}
                         /\ \A po \in now : /\ po[1] = step.level
                                            /\ po[2].size = step.resting_after

\* a level is at least as good as another for the incoming order of the fill
AsGood(p, q) == IF IsBuy THEN p <= q ELSE p >= q
Better(p, q) == IF IsBuy THEN p < q ELSE p > q

\* C3 Price priority: the Match logs of a fill_market_order follow the
\* visited makers one for one; a buy visits ask levels in ascending price
\* order and a sell visits bid levels in descending price order, and when a
\* maker is matched every maker resting at a better level at entry has
\* already been drained by the walk.
PricePriority ==
    IsFill =>
        LET steps == last.steps
            matches == MatchLogs(last.logs)
        IN  /\ Len(matches) = Len(steps)
            /\ \A k \in 1..Len(steps) :
                   /\ matches[k].maker_order_id = steps[k].maker
                   /\ steps[k].level \in DOMAIN Opposing0
            /\ \A i, j \in 1..Len(steps) :
                   i < j => AsGood(steps[i].level, steps[j].level)
            /\ \A j \in 1..Len(steps) :
                   \A po \in RestingOrders(Opposing0) :
                       Better(po[1], steps[j].level) =>
                           \E i \in 1..(j - 1) :
                               /\ steps[i].maker_at = po[2].created_at
                               /\ steps[i].resting_after = 0

\* C3 witness: a buy walked two ask levels, the cheaper first, although the
\* dearer level was inserted first (and the mirror case for a sell).
PricePriorityWitness ==
    /\ IsFill
    /\ \E i, j \in 1..Len(last.steps) :
           /\ i < j
           /\ Better(last.steps[i].level, last.steps[j].level)
           /\ last.steps[i].maker_at > last.steps[j].maker_at

IsLimitFill == last.op = "fill_order"

Increasing(nums) == \A i, j \in 1..Len(nums) : i < j => nums[i] < nums[j]
Arrivals(orders) == [i \in 1..Len(orders) |-> orders[i].created_at]

\* the queue a fill_order call must leave: every order of the queue it
\* found, in place, with the size the walk left it, the drained ones gone
SurvivorsOf(before, steps) ==
    SelectSeq([k \in 1..Len(before) |->
                  [created_at |-> before[k].created_at,
                   size |-> IF k <= Len(steps) THEN steps[k].resting_after
                            ELSE before[k].size]],
              LAMBDA o : o.size > 0)

\* C4 Time priority: the orders of a Limit always stand in arrival order;
\* fill_order visits them from the head of the queue, takes size from an
\* order only when every order ahead of it has been drained, and leaves
\* the survivors in their places, a partially filled order included.
TimePriority ==
    /\ Increasing(Arrivals(limit.orders))
    /\ IsLimitFill =>
           LET before == last.limit0.orders
               steps == last.steps
               matches == MatchLogs(last.logs)
               survivors == SurvivorsOf(before, steps)
           IN  /\ Len(steps) <= Len(before)
               /\ Len(matches) = Len(steps)
               /\ \A k \in 1..Len(steps) :
                      /\ steps[k].maker_at = before[k].created_at
                      /\ matches[k].maker_order_id = before[k].id
                      /\ Taken(steps[k]) > 0 =>
                             \A i \in 1..(k - 1) : steps[i].resting_after = 0
               /\ Len(limit.orders) = Len(survivors)
               /\ \A k \in 1..Len(survivors) :
                      /\ limit.orders[k].created_at = survivors[k].created_at
                      /\ limit.orders[k].size = survivors[k].size

\* C4 witness: a fill took part of the head order, which still stands
\* ahead of a later arrival.
TimePriorityWitness ==
    /\ IsLimitFill
    /\ Len(limit.orders) >= 2
    /\ limit.orders[1].created_at = last.limit0.orders[1].created_at
    /\ limit.orders[1].size < last.limit0.orders[1].size

IsCancel == last.op = "delete_order"

\* every maker the call found at the level was drained by the walk
LevelDrained(p) ==
    \A i \in 1..Len(Opposing0[p].orders) :
        \E k \in 1..Len(last.steps) :
            /\ last.steps[k].maker_at = Opposing0[p].orders[i].created_at
            /\ last.steps[k].resting_after = 0

\* C5 Level lifecycle: after every command a price is a key of bids or asks
\* only with a non-empty Limit stored under it, and a level whose makers a
\* fill has all drained is no longer a key of the book's map.
LevelLifecycle ==
    /\ \A p \in DOMAIN asks : asks[p].orders # <<>>
    /\ \A p \in DOMAIN bids : bids[p].orders # <<>>
    /\ IsFill => \A p \in DOMAIN Opposing0 :
                     LevelDrained(p) => p \notin DOMAIN OpposingNow

\* the makers a fill drained to size 0, in the order the walk met them
Drained(steps) ==
    SelectSeq(steps, LAMBDA st : st.resting_before > 0 /\ st.resting_after = 0)

\* C6 The Done logs of a fill are, one for one and in order, the resting
\* orders the fill drained to size 0, each with reason FILLED and
\* remaining_size 0; an order filled in part or not reached gets none.
DoneOnlyForDrained ==
    IsFill =>
        LET dones == DoneLogs(last.logs)
            drained == Drained(last.steps)
        IN  /\ Len(dones) = Len(drained)
            /\ \A k \in 1..Len(dones) :
                   /\ dones[k].order_id = drained[k].maker
                   /\ dones[k].reason = "FILLED"
                   /\ dones[k].remaining_size = 0

\* C7 The Match log of a step between the incoming order and a resting
\* order carries taker = incoming id, maker = resting id, price = the price
\* of the level and size = min(incoming size, resting size) as they were
\* right before the step.
MatchCarriesStep ==
    IsFill =>
        LET matches == MatchLogs(last.logs)
        IN  /\ Len(matches) = Len(last.steps)
            /\ \A k \in 1..Len(matches) :
                   LET step == last.steps[k]
                   IN  /\ matches[k].taker_order_id = last.order.id
                       /\ matches[k].maker_order_id = step.maker
                       /\ matches[k].price = step.level
                       /\ matches[k].size =
                              Min(step.incoming_before, step.resting_before)

SequencesOf(logs) == [i \in 1..Len(logs) |-> logs[i].sequence]

\* C8 Over any sequence of commands on one OrderBook the sequence numbers
\* of the logs are strictly increasing in emission order (so pairwise
\* distinct): the logs of a call are numbered in increasing order and above
\* every number emitted before the call.
SequenceStrictlyIncreasing ==
    /\ Increasing(SequencesOf(last.logs))
    /\ \A k \in 1..Len(last.logs) : last.logs[k].sequence > last.emitted0

\* the ids resting on a side of the book
RestingIds(map) == {po[2].id : po \in RestingOrders(map)}

\* C9 Cancelling an id that rests on neither side does not abort the
\* process and leaves bids, asks, the sequence counter and the emitted
\* logs as they were.
CancelNotFound ==
    (IsCancel /\ last.id \notin RestingIds(last.asks0) \cup RestingIds(last.bids0))
        => /\ ~panicked
           /\ asks = last.asks0
           /\ bids = last.bids0
           /\ sequence = last.sequence0
           /\ last.logs = <<>>
           /\ emitted = last.emitted0

\* the side and the Limit a cancel was sent to, before and after
CancelMap0 == IF last.order.bid_or_ask = "Bid" THEN last.bids0 ELSE last.asks0
CancelMapNow == IF last.order.bid_or_ask = "Bid" THEN bids ELSE asks
CancelOther0 == IF last.order.bid_or_ask = "Bid" THEN last.asks0 ELSE last.bids0
CancelOtherNow == IF last.order.bid_or_ask = "Bid" THEN asks ELSE bids

\* the id rests exactly once in the book, in the Limit the cancel is sent to
RestsOnceThere ==
    /\ Cardinality({po \in RestingOrders(last.asks0)
                           \cup RestingOrders(last.bids0) :
                       po[2].id = last.id}) = 1
    /\ Positions(CancelMap0[last.price].orders, last.id) # {}

\* C10 Cancelling a resting id removes exactly that order from its Limit,
\* leaves every other resting order and their order unchanged, returns one
\* Done log with reason DELETED and the size the order held, and removes
\* the Limit from the book if it became empty.
CancelResting ==
    (IsCancel /\ RestsOnceThere) =>
        LET before == CancelMap0[last.price].orders
            k == CHOOSE i \in Positions(before, last.id) : TRUE
            rest == [i \in 1..(Len(before) - 1) |->
                        IF i < k THEN before[i] ELSE before[i + 1]]
        IN  /\ ~panicked
            /\ CancelOtherNow = CancelOther0
            /\ \A p \in DOMAIN CancelMap0 \ {last.price} :
                   /\ p \in DOMAIN CancelMapNow
                   /\ CancelMapNow[p] = CancelMap0[p]
            /\ IF rest = <<>>
               THEN last.price \notin DOMAIN CancelMapNow
               ELSE /\ last.price \in DOMAIN CancelMapNow
                    /\ CancelMapNow[last.price].orders = rest
            /\ Len(last.logs) = 1
            /\ last.logs[1].kind = "Done"
            /\ last.logs[1].order_id = last.id
            /\ last.logs[1].reason = "DELETED"
            /\ last.logs[1].remaining_size = before[k].size

\* ids resting anywhere in the book, now and when the last call began
BookIds == RestingIds(asks) \cup RestingIds(bids)
BookIds0 == RestingIds(last.asks0) \cup RestingIds(last.bids0)

\* C11 The unmatched remainder of a market order is never rested: after
\* fill_market_order the incoming order is held by no Limit of either side
\* (its id rests nowhere unless another order with that id already rested
\* when the call began), and when no order rests on the opposing side at
\* entry the call returns no log and leaves the incoming order's size as
\* it was.
MarketNeverRested ==
    IsFill =>
        /\ \A po \in RestingOrders(asks) \cup RestingOrders(bids) :
               po[2].created_at # last.order.created_at
        /\ (last.id \notin BookIds0 => last.id \notin BookIds)
        /\ (RestingOrders(Opposing0) = {} =>
               /\ last.logs = <<>>
               /\ last.market.size = last.order.size)

\* a fill that exhausted the opposing side and kept a remainder
MarketNeverRestedWitness ==
    /\ IsFill
    /\ last.steps # <<>>
    /\ last.market.size > 0
    /\ last.id \notin BookIds0

\* the prices of a side at which at least one order rests
Levels(map) == {p \in DOMAIN map : map[p].orders # <<>>}

IsAdd == last.op = "add_limit_order"
AddOwn0 == IF IsBuy THEN last.bids0 ELSE last.asks0
AddOwnNow == IF IsBuy THEN bids ELSE asks
AddOpposite0 == IF IsBuy THEN last.asks0 ELSE last.bids0
AddOppositeNow == IF IsBuy THEN asks ELSE bids

\* the last call was add_limit_order at a price marketable against the
\* opposite side as the call found it
Crosses0 ==
    /\ IsAdd
    /\ \E p \in Levels(AddOpposite0) :
           IF IsBuy THEN last.price >= p ELSE last.price <= p

Crossed == \E pb \in Levels(bids), pa \in Levels(asks) : pb >= pa

IsSnapshot == last.op = "snapshot"
IsRestore == last.op = "restore"

\* restore has just rebuilt a new book from a snapshot nobody edited
RestoredFromSnapshot ==
    /\ IsRestore
    /\ ~snapshot_data.edited
    /\ last.asks0 = <<>>
    /\ last.bids0 = <<>>

\* the (id, side, price level, size) of the orders of each level that holds
\* orders, in the order they rest there
LevelTuples(map) ==
    [p \in Levels(map) |->
        [i \in 1..Len(map[p].orders) |->
            <<map[p].orders[i].id, map[p].orders[i].bid_or_ask, p,
              map[p].orders[i].size>>]]

\* C13 Snapshot/restore round trip: for every book B, snapshot(B) returns
\* and restoring it into a new OrderBook gives a book with the same
\* resting (id, side, price level, size) tuples as B, in the same arrival
\* order inside each level.
RoundTrip ==
    /\ (IsSnapshot => ~panicked)
    /\ (RestoredFromSnapshot =>
           /\ LevelTuples(asks) = LevelTuples(snapshot_data.book.asks)
           /\ LevelTuples(bids) = LevelTuples(snapshot_data.book.bids))

\* C14 snapshot of a book with k resting orders completes, for a non-empty
\* book too, and returns exactly those k orders, each once: the ask orders
\* level by level in ascending price, then the bid orders level by level
\* in descending price, in arrival order within each level.
SnapshotListsBook ==
    IsSnapshot =>
        /\ ~panicked
        /\ snapshot_data.orders =
               limit_orders(sort_ascending(Values(last.asks0)))
               \o limit_orders(sort_descending(Values(last.bids0)))
        /\ Len(snapshot_data.orders) =
               Cardinality(RestingOrders(last.asks0))
               + Cardinality(RestingOrders(last.bids0))

\* C15 Sequence monotonicity across snapshot/restore: snapshot records the
\* book's sequence counter, restore leaves the rebuilt book's counter at
\* least at the recorded value, and every log returned by the restored
\* book has a sequence number above every one returned before the
\* snapshot.
SequenceAcrossRestore ==
    /\ ((IsSnapshot /\ ~panicked) =>
           snapshot_data.log_seq = last.sequence0)
    /\ (RestoredFromSnapshot =>
           /\ sequence >= snapshot_data.book.sequence
           /\ emitted = last.emitted0)
    /\ (snapshot_data.restored =>
           \A i \in 1..Len(last.logs) :
               last.logs[i].sequence > snapshot_data.book.emitted)

\* the order list has a duplicate id or a size that is not positive
Malformed(orders) ==
    \/ \E i \in 1..Len(orders) : orders[i].size <= 0
    \/ \E i, j \in 1..Len(orders) : i # j /\ orders[i].id = orders[j].id

\* C16 Restore is all-or-nothing: when the snapshot's order list has a
\* malformed entry (duplicate id, non-positive size) at any position, the
\* target book is after restore exactly as before it, maps and sequence
\* counter, with no prefix of the list inserted.
RestoreAllOrNothing ==
    (IsRestore /\ Malformed(snapshot_data.orders)) =>
        /\ asks = last.asks0
        /\ bids = last.bids0
        /\ sequence = last.sequence0

AllResting == RestingOrders(asks) \cup RestingOrders(bids)

\* the order handed to the last call has a size or a price that is not
\* positive
InvalidOrder == last.order.size <= 0 \/ last.order.price <= 0

\* C17 An order with size <= 0 or price <= 0 is rejected before any book
\* mutation: no such order ever rests, and a call that is handed one
\* leaves the book's maps and sequence counter unchanged and returns no
\* log.
InvalidOrderRejected ==
    /\ \A po \in AllResting : po[2].size > 0 /\ po[2].price > 0
    /\ ((IsAdd \/ IsFill) /\ InvalidOrder) =>
           /\ asks = last.asks0
           /\ bids = last.bids0
           /\ sequence = last.sequence0
           /\ last.logs = <<>>

\* C18 No negative sizes: in every reachable state the size of every
\* resting order is >= 0, and so is the size of the incoming order of a
\* fill, at entry, after every step of the walk and at return, and the
\* size of every maker the walk visited.
NoNegativeSizes ==
    /\ \A po \in AllResting : po[2].size >= 0
    /\ \A i \in 1..Len(limit.orders) : limit.orders[i].size >= 0
    /\ (IsFill \/ IsLimitFill) =>
           /\ last.order.size >= 0
           /\ last.market.size >= 0
           /\ \A k \in 1..Len(last.steps) :
                  /\ last.steps[k].incoming_after >= 0
                  /\ last.steps[k].resting_after >= 0

\* C19 In every reachable state an order id appears in at most one Limit
\* across both sides of the book and at most once within that Limit's
\* order sequence.
OrderIdOnce ==
    \A id \in Ids :
        Cardinality(
            UNION {{<<"Ask", p, i>> : i \in Positions(asks[p].orders, id)} :
                     p \in DOMAIN asks}
            \cup
            UNION {{<<"Bid", p, i>> : i \in Positions(bids[p].orders, id)} :
                     p \in DOMAIN bids}) <= 1

\* C20 In every reachable state every order held by a Limit has price
\* equal to that Limit's price, and the Limit's price equals the key under
\* which the book's map stores it.
OrderPriceIsLevelPrice ==
    \A map \in {asks, bids} :
        \A p \in DOMAIN map :
            /\ map[p].price = p
            /\ \A i \in 1..Len(map[p].orders) :
                   map[p].orders[i].price = map[p].price

\* C21 add_limit_order(price, order) places the order at the end of the
\* order sequence of the Limit at that price on the order's own side,
\* creating the Limit if there is none, leaves the opposite side and every
\* other level unchanged, and returns one Open log carrying the order's
\* id, size, price and side.
AddPlacesLast ==
    IsAdd =>
        /\ AddOppositeNow = AddOpposite0
        /\ DOMAIN AddOwnNow = DOMAIN AddOwn0 \cup {last.price}
        /\ \A p \in DOMAIN AddOwn0 \ {last.price} : AddOwnNow[p] = AddOwn0[p]
        /\ AddOwnNow[last.price].price = last.price
        /\ AddOwnNow[last.price].orders =
               Append(IF last.price \in DOMAIN AddOwn0
                      THEN AddOwn0[last.price].orders ELSE <<>>,
                      last.order)
        /\ Len(last.logs) = 1
        /\ last.logs[1].kind = "Open"
        /\ last.logs[1].order_id = last.order.id
        /\ last.logs[1].size = last.order.size
        /\ last.logs[1].price = last.order.price
        /\ last.logs[1].bid_or_ask = last.order.bid_or_ask

\* an order was added behind another at a level that already held orders,
\* while orders rested on the opposite side
AddPlacesLastWitness ==
    /\ IsAdd
    /\ last.price \in Levels(AddOwn0)
    /\ Levels(AddOpposite0) # {}

\* C22 The walk stops once the incoming order is exhausted: no maker is
\* visited, in a Limit or at a further level, after the incoming order's
\* size reached 0, so every Match log stands for a matched size > 0 and
\* the number of Match logs equals the number of makers that gave up size.
WalkStopsWhenFilled ==
    (IsFill \/ IsLimitFill) =>
        /\ \A k \in 1..Len(last.steps) :
               /\ last.steps[k].incoming_before > 0
               /\ Taken(last.steps[k]) > 0
        /\ Len(MatchLogs(last.logs)) =
               Cardinality({k \in 1..Len(last.steps) :
                              Taken(last.steps[k]) > 0})

FillOwn0 == IF IsBuy THEN last.bids0 ELSE last.asks0
FillOwnNow == IF IsBuy THEN bids ELSE asks

\* C23 fill_market_order never changes the incoming order's own side: for
\* a Bid incoming order the bids map, and for an Ask incoming order the
\* asks map, is after the call what it was before it (same levels, same
\* orders, same sizes, same order within levels).
OwnSideUnchanged == IsFill => FillOwnNow = FillOwn0

\* a fill matched makers while orders rested on the incoming order's own
\* side
OwnSideUnchangedWitness ==
    /\ IsFill
    /\ last.steps # <<>>
    /\ Levels(FillOwn0) # {}

====
